---- MODULE Spec2Model ----
(***************************************************************************)
(* Dead-Simple-Budget (src/app.js): the envelope ledger as a state machine. *)
(*                                                                         *)
(* Money: a decimal dollar amount is modelled as an integer number of      *)
(* mills (thousandths of a dollar), so that 12.345 dollars is 12345; cents *)
(* are integers, as in the code.  Instants (Date, ISO-8601 strings) are    *)
(* modelled as integer day numbers: toISOString() is fixed-width UTC, so   *)
(* the string order the code uses is the order of the instants.            *)
(* Envelope ids are strings, transaction ids are the numbers of a counter  *)
(* (crypto.randomUUID() never repeats).                                    *)
(***************************************************************************)
EXTENDS Integers, Sequences, FiniteSets, TLC

VARIABLES
  envelopes,        \* state.envelopes: sequence of Envelope records
  transactions,     \* state.transactions: sequence of Transaction records
  retentionDays,    \* state.settings.transactionRetentionDays
  now,              \* the wall clock (new Date()), in days
  nextEnvId,        \* how many ids addEnvelope/addCreditCardEnvelope have drawn
  nextTxId,         \* how many ids addTransaction has drawn for logged entries
  pc,               \* position in init(): "load", "ensure", "prune", "cleanup",
                    \* then "ready" (the handlers are wired); under SpecEngine
                    \* "applied" and "rolledBack", under SpecRepair "ensuredTwice"
  calls,            \* calls of the handlers so far (bounded by MaxCalls)
  lastOp,           \* history: name of the operation that made the last step
  lastArgs,         \* history: its arguments (and what it resolved)
  preEnvelopes,     \* history: state.envelopes before the last step
  preTransactions,  \* history: state.transactions before the last step
  undoOf            \* history: when the last step deleted the entry the step
                    \* before it had just appended, the state before that step

vars == <<envelopes, transactions, retentionDays, now, nextEnvId, nextTxId, pc,
          calls, lastOp, lastArgs, preEnvelopes, preTransactions, undoOf>>

-----------------------------------------------------------------------------
(* Bound of the model *)

MaxCalls == 1         \* calls of the handlers in one session
MaxStored == 3        \* envelopes of a stored collection under SpecRepair

(* Inputs *)

null == "null"                      \* an absent envelope id (null, undefined, '')
GhostId == "env_gone"               \* an id that resolves to no envelope
Today == {45}                       \* the day the session runs on
RetentionSettings == {0, 30}        \* settings.transactionRetentionDays of the blob

-----------------------------------------------------------------------------
(* Money helpers *)

\* Math.round(Number(d || 0) * 100): the nearest cent, ties towards +infinity
dollarsToCents(d) == (d + 5) \div 10

\* cents / 100, the dollar amount deleteEnvelope and autoAllocate pass on
centsAsDollars(c) == c * 10

-----------------------------------------------------------------------------
(* Data model *)

Flag(flags, f) == IF f \in DOMAIN flags THEN flags[f] ELSE FALSE

Envelope(id, name, targetCents, balanceCents, flags) ==
  [id |-> id, name |-> name, targetCents |-> targetCents,
   balanceCents |-> balanceCents,
   isIncome |-> Flag(flags, "isIncome"),
   isOverflow |-> Flag(flags, "isOverflow"),
   isCreditCard |-> Flag(flags, "isCreditCard"),
   isActive |-> IF "isActive" \in DOMAIN flags THEN flags["isActive"] ELSE TRUE]

Transaction(id, timestamp, fromEnvelopeId, toEnvelopeId, amountCents, note) ==
  [id |-> id, timestamp |-> timestamp,
   fromEnvelopeId |-> fromEnvelopeId, toEnvelopeId |-> toEnvelopeId,
   amountCents |-> amountCents, note |-> note]

\* the {envelopes, transactions} pair every operation works on
St(envs, txs) == [envelopes |-> envs, transactions |-> txs]

\* Array.prototype.find(e => e.id === id): index of the first match, 0 if none
FindEnvelope(envs, id) ==
  IF \E i \in 1..Len(envs) : envs[i].id = id
  THEN CHOOSE i \in 1..Len(envs) :
         envs[i].id = id /\ \A j \in 1..(i - 1) : envs[j].id # id
  ELSE 0

\* state.transactions.findIndex(t => t.id === id)
FindTransaction(txs, id) ==
  IF \E i \in 1..Len(txs) : txs[i].id = id
  THEN CHOOSE i \in 1..Len(txs) :
         txs[i].id = id /\ \A j \in 1..(i - 1) : txs[j].id # id
  ELSE 0

isCoreEnvelope(env) == env.isIncome \/ env.isOverflow

\* getIncomeEnvelope: index of the first envelope with isIncome, 0 if none
getIncomeEnvelope(envs) ==
  IF \E i \in 1..Len(envs) : envs[i].isIncome
  THEN CHOOSE i \in 1..Len(envs) :
         envs[i].isIncome /\ \A j \in 1..(i - 1) : ~envs[j].isIncome
  ELSE 0

getOverflowEnvelope(envs) ==
  IF \E i \in 1..Len(envs) : envs[i].isOverflow
  THEN CHOOSE i \in 1..Len(envs) :
         envs[i].isOverflow /\ \A j \in 1..(i - 1) : ~envs[j].isOverflow
  ELSE 0

-----------------------------------------------------------------------------
(* Balance application engine *)

AddToBalance(envs, i, delta) ==
  IF i = 0 THEN envs
  ELSE [envs EXCEPT ![i].balanceCents = @ + delta]

\* a variant that credits the to side whatever the direction
applyTransactionToBalances_OneWay(envs, tx, direction) ==
  LET afterFrom ==
        IF tx.fromEnvelopeId # null
        THEN AddToBalance(envs, FindEnvelope(envs, tx.fromEnvelopeId),
                          0 - direction * tx.amountCents)
        ELSE envs
  IN IF tx.toEnvelopeId # null
     THEN AddToBalance(afterFrom, FindEnvelope(afterFrom, tx.toEnvelopeId),
                       tx.amountCents)
     ELSE afterFrom

\* applyTransactionToBalances(tx, direction): first the from side, then the to
\* side; each id is looked up when its side is applied
applyTransactionToBalances(envs, tx, direction) ==
  LET afterFrom ==
        IF tx.fromEnvelopeId # null
        THEN AddToBalance(envs, FindEnvelope(envs, tx.fromEnvelopeId),
                          0 - direction * tx.amountCents)
        ELSE envs
  IN IF tx.toEnvelopeId # null
     THEN AddToBalance(afterFrom, FindEnvelope(afterFrom, tx.toEnvelopeId),
                       direction * tx.amountCents)
     ELSE afterFrom

-----------------------------------------------------------------------------
(* Envelope operations *)

DemoteIncome(envs, keep) ==
  [i \in 1..Len(envs) |->
     IF envs[i].isIncome /\ i # keep THEN [envs[i] EXCEPT !.isIncome = FALSE]
     ELSE envs[i]]

DemoteOverflow(envs, keep) ==
  [i \in 1..Len(envs) |->
     IF envs[i].isOverflow /\ i # keep THEN [envs[i] EXCEPT !.isOverflow = FALSE]
     ELSE envs[i]]

\* a variant that strips the flag from every Income it finds, the first included
ensureCoreEnvelopes_DemotesAll(envs) ==
  LET single == DemoteOverflow(DemoteIncome(envs, 0), getOverflowEnvelope(envs))
      withIncome ==
        Append(single, Envelope("env_income", "Income", 0, 0,
                 [isIncome |-> TRUE, isOverflow |-> FALSE,
                  isCreditCard |-> FALSE, isActive |-> TRUE]))
      overflow == getOverflowEnvelope(withIncome)
  IN IF overflow = 0
     THEN Append(withIncome, Envelope("env_overflow", "Overflow", 0, 0,
              [isIncome |-> FALSE, isOverflow |-> TRUE,
               isCreditCard |-> FALSE, isActive |-> TRUE]))
     ELSE [withIncome EXCEPT ![overflow].targetCents = 0,
                             ![overflow].isActive = TRUE]

\* ensureCoreEnvelopes: keep the first Income and the first Overflow, create
\* the missing one under its fixed id, force target 0 and active on both
ensureCoreEnvelopes(envs) ==
  LET single == DemoteOverflow(DemoteIncome(envs, getIncomeEnvelope(envs)),
                               getOverflowEnvelope(envs))
      income == getIncomeEnvelope(single)
      withIncome ==
        IF income = 0
        THEN Append(single, Envelope("env_income", "Income", 0, 0,
                 [isIncome |-> TRUE, isOverflow |-> FALSE,
                  isCreditCard |-> FALSE, isActive |-> TRUE]))
        ELSE [single EXCEPT ![income].targetCents = 0, ![income].isActive = TRUE]
      overflow == getOverflowEnvelope(withIncome)
  IN IF overflow = 0
     THEN Append(withIncome, Envelope("env_overflow", "Overflow", 0, 0,
              [isIncome |-> FALSE, isOverflow |-> TRUE,
               isCreditCard |-> FALSE, isActive |-> TRUE]))
     ELSE [withIncome EXCEPT ![overflow].targetCents = 0,
                             ![overflow].isActive = TRUE]

\* loadState: every stored envelope goes through the Envelope constructor
loadState(envs) ==
  [i \in 1..Len(envs) |->
     Envelope(envs[i].id, envs[i].name, envs[i].targetCents, envs[i].balanceCents,
              [isIncome |-> envs[i].isIncome, isOverflow |-> envs[i].isOverflow,
               isCreditCard |-> envs[i].isCreditCard,
               isActive |-> envs[i].isActive])]

\* addEnvelope(name, targetDollars, flags); an empty name returns at once
addEnvelope(envs, id, name, targetDollars, flags) ==
  IF name = "" THEN envs
  ELSE Append(envs, Envelope(id, name, dollarsToCents(targetDollars), 0, flags))

addCreditCardEnvelope(envs, id, name) ==
  IF name = "" THEN envs
  ELSE Append(envs, Envelope(id, name, 0, 0,
           [isIncome |-> FALSE, isOverflow |-> FALSE,
            isCreditCard |-> TRUE, isActive |-> TRUE]))

\* a variant that treats a core envelope like any other
updateEnvelope_CoreLikeAny(envs, id, updates) ==
  LET i == FindEnvelope(envs, id) IN
  IF i = 0 THEN envs
  ELSE
    LET env == envs[i]
        has(f) == f \in DOMAIN updates
    IN [envs EXCEPT ![i] =
         [env EXCEPT
            !.name = IF has("name") THEN updates["name"] ELSE @,
            !.targetCents = IF has("targetDollars")
                            THEN dollarsToCents(updates["targetDollars"]) ELSE @,
            !.isIncome = IF has("isIncome") THEN updates["isIncome"] ELSE @,
            !.isOverflow = IF has("isOverflow") THEN updates["isOverflow"] ELSE @,
            !.isCreditCard = IF has("isCreditCard") THEN updates["isCreditCard"] ELSE @,
            !.isActive = IF has("isActive") THEN updates["isActive"] ELSE @]]

\* updateEnvelope(id, updates): updates is a record holding the provided fields
updateEnvelope(envs, id, updates) ==
  LET i == FindEnvelope(envs, id) IN
  IF i = 0 THEN envs
  ELSE
    LET env == envs[i]
        core == isCoreEnvelope(env)
        has(f) == f \in DOMAIN updates
    IN [envs EXCEPT ![i] =
         [env EXCEPT
            !.name = IF ~core /\ has("name") THEN updates["name"] ELSE @,
            !.targetCents = IF ~core /\ has("targetDollars")
                            THEN dollarsToCents(updates["targetDollars"]) ELSE @,
            !.isIncome = IF has("isIncome") THEN updates["isIncome"] ELSE @,
            !.isOverflow = IF has("isOverflow") THEN updates["isOverflow"] ELSE @,
            !.isCreditCard = IF has("isCreditCard") THEN updates["isCreditCard"] ELSE @,
            !.isActive = IF has("isActive") /\ ~core THEN updates["isActive"] ELSE @]]

\* a variant that collects the from side only
usedIds_FromOnly(txs) ==
  {txs[k].fromEnvelopeId : k \in {j \in 1..Len(txs) : txs[j].fromEnvelopeId # null}}

\* ids referenced by a transaction of the list
usedIds(txs) ==
  {txs[k].fromEnvelopeId : k \in {j \in 1..Len(txs) : txs[j].fromEnvelopeId # null}}
  \cup {txs[k].toEnvelopeId : k \in {j \in 1..Len(txs) : txs[j].toEnvelopeId # null}}

\* a variant that purges an inactive, unreferenced envelope whatever it holds
keepEnvelope_IgnoresBalance(env, used) ==
  \/ isCoreEnvelope(env)
  \/ env.isActive
  \/ env.id \in used

\* a variant that forgets the references of the ledger
keepEnvelope_IgnoresReferences(env, used) ==
  \/ isCoreEnvelope(env)
  \/ env.isActive
  \/ env.balanceCents # 0

\* the filter of cleanupUnusedEnvelopes: TRUE keeps the envelope
keepEnvelope(env, used) ==
  \/ isCoreEnvelope(env)
  \/ env.isActive
  \/ env.balanceCents # 0
  \/ env.id \in used

\* cleanupUnusedEnvelopes(): filters state.envelopes, leaves the ledger alone
cleanupUnusedEnvelopes(st) ==
  St(SelectSeq(st.envelopes,
               LAMBDA env : keepEnvelope(env, usedIds(st.transactions))),
     st.transactions)

-----------------------------------------------------------------------------
(* Transaction operations *)

\* a variant that appends the entry whatever log says
addTransaction_AlwaysLogs(st, fromEnvelopeId, toEnvelopeId, amountDollars, note, log, id, ts) ==
  LET amountCents == dollarsToCents(amountDollars) IN
  IF amountCents = 0 THEN st
  ELSE
    LET tx == Transaction(id, ts, fromEnvelopeId, toEnvelopeId, amountCents, note)
    IN St(applyTransactionToBalances(st.envelopes, tx, 1),
          Append(st.transactions, tx))

\* addTransaction({fromEnvelopeId, toEnvelopeId, amountDollars, note, log})
addTransaction(st, fromEnvelopeId, toEnvelopeId, amountDollars, note, log, id, ts) ==
  LET amountCents == dollarsToCents(amountDollars) IN
  IF amountCents = 0 THEN st
  ELSE
    LET tx == Transaction(id, ts, fromEnvelopeId, toEnvelopeId, amountCents, note)
    IN St(applyTransactionToBalances(st.envelopes, tx, 1),
          IF log THEN Append(st.transactions, tx) ELSE st.transactions)

\* a variant that applies the new entry without rolling the old one back
updateTransaction_NoRollback(st, id, updates) ==
  LET index == FindTransaction(st.transactions, id) IN
  IF index = 0 THEN st
  ELSE
    LET oldTx == st.transactions[index]
        has(f) == f \in DOMAIN updates
        newTx == Transaction(oldTx.id, oldTx.timestamp,
                   IF has("fromEnvelopeId") THEN updates["fromEnvelopeId"]
                   ELSE oldTx.fromEnvelopeId,
                   IF has("toEnvelopeId") THEN updates["toEnvelopeId"]
                   ELSE oldTx.toEnvelopeId,
                   IF has("amountDollars") THEN dollarsToCents(updates["amountDollars"])
                   ELSE oldTx.amountCents,
                   IF has("note") THEN updates["note"] ELSE oldTx.note)
    IN St(applyTransactionToBalances(st.envelopes, newTx, 1),
          [st.transactions EXCEPT ![index] = newTx])

\* a variant that stores the edited entry at the end of the list
updateTransaction_MovesToEnd(st, id, updates) ==
  LET index == FindTransaction(st.transactions, id) IN
  IF index = 0 THEN st
  ELSE
    LET oldTx == st.transactions[index]
        has(f) == f \in DOMAIN updates
        rolledBack == applyTransactionToBalances(st.envelopes, oldTx, -1)
        newTx == Transaction(oldTx.id, oldTx.timestamp,
                   IF has("fromEnvelopeId") THEN updates["fromEnvelopeId"]
                   ELSE oldTx.fromEnvelopeId,
                   IF has("toEnvelopeId") THEN updates["toEnvelopeId"]
                   ELSE oldTx.toEnvelopeId,
                   IF has("amountDollars") THEN dollarsToCents(updates["amountDollars"])
                   ELSE oldTx.amountCents,
                   IF has("note") THEN updates["note"] ELSE oldTx.note)
    IN St(applyTransactionToBalances(rolledBack, newTx, 1),
          Append(SelectSeq(st.transactions, LAMBDA t : t.id # id), newTx))

\* updateTransaction(id, updates): roll the old entry back, apply the new one
updateTransaction(st, id, updates) ==
  LET index == FindTransaction(st.transactions, id) IN
  IF index = 0 THEN st
  ELSE
    LET oldTx == st.transactions[index]
        has(f) == f \in DOMAIN updates
        rolledBack == applyTransactionToBalances(st.envelopes, oldTx, -1)
        newTx == Transaction(oldTx.id, oldTx.timestamp,
                   IF has("fromEnvelopeId") THEN updates["fromEnvelopeId"]
                   ELSE oldTx.fromEnvelopeId,
                   IF has("toEnvelopeId") THEN updates["toEnvelopeId"]
                   ELSE oldTx.toEnvelopeId,
                   IF has("amountDollars") THEN dollarsToCents(updates["amountDollars"])
                   ELSE oldTx.amountCents,
                   IF has("note") THEN updates["note"] ELSE oldTx.note)
    IN St(applyTransactionToBalances(rolledBack, newTx, 1),
          [st.transactions EXCEPT ![index] = newTx])

Reactivate(envs, envId) ==
  LET i == IF envId = null THEN 0 ELSE FindEnvelope(envs, envId) IN
  IF i # 0 /\ ~envs[i].isActive THEN [envs EXCEPT ![i].isActive = TRUE] ELSE envs

RemoveAt(s, index) ==
  [k \in 1..(Len(s) - 1) |-> IF k < index THEN s[k] ELSE s[k + 1]]

\* a variant that removes the entry and keeps its effect on the balances
deleteTransaction_NoRollback(st, id) ==
  LET index == FindTransaction(st.transactions, id) IN
  IF index = 0 THEN st
  ELSE
    LET tx == st.transactions[index]
    IN St(Reactivate(Reactivate(st.envelopes, tx.fromEnvelopeId), tx.toEnvelopeId),
          RemoveAt(st.transactions, index))

\* a variant that rolls back and removes without reactivating
deleteTransaction_NoReactivate(st, id) ==
  LET index == FindTransaction(st.transactions, id) IN
  IF index = 0 THEN st
  ELSE St(applyTransactionToBalances(st.envelopes, st.transactions[index], -1),
          RemoveAt(st.transactions, index))

\* a variant that reactivates the from side only
deleteTransaction_ReactivatesFromOnly(st, id) ==
  LET index == FindTransaction(st.transactions, id) IN
  IF index = 0 THEN st
  ELSE
    LET tx == st.transactions[index]
        reactivated == Reactivate(st.envelopes, tx.fromEnvelopeId)
    IN St(applyTransactionToBalances(reactivated, tx, -1),
          RemoveAt(st.transactions, index))

\* deleteTransaction(id): reactivate both referenced envelopes, roll back, splice
deleteTransaction(st, id) ==
  LET index == FindTransaction(st.transactions, id) IN
  IF index = 0 THEN st
  ELSE
    LET tx == st.transactions[index]
        reactivated == Reactivate(Reactivate(st.envelopes, tx.fromEnvelopeId),
                                  tx.toEnvelopeId)
    IN St(applyTransactionToBalances(reactivated, tx, -1),
          RemoveAt(st.transactions, index))

DefaultRetentionDays == 45

RECURSIVE rollbackOld(_, _, _)
rollbackOld(envs, txs, cutoff) ==
  IF txs = <<>> THEN envs
  ELSE rollbackOld(IF Head(txs).timestamp < cutoff
                   THEN applyTransactionToBalances(envs, Head(txs), -1)
                   ELSE envs,
                   Tail(txs), cutoff)

\* a variant that undoes the balance effect of what it removes
pruneOldTransactions_RollsBack(st, days, today) ==
  LET effective == IF days = 0 THEN 45 ELSE days
      cutoff == today - effective
  IN St(rollbackOld(st.envelopes, st.transactions, cutoff),
        SelectSeq(st.transactions, LAMBDA tx : tx.timestamp >= cutoff))

\* pruneOldTransactions(): keeps the entries whose timestamp is at or after the
\* cutoff (now minus the retention days, 45 when the setting is 0 or missing);
\* it never touches state.envelopes
pruneOldTransactions(st, days, today) ==
  LET effective == IF days = 0 THEN DefaultRetentionDays ELSE days
      cutoff == today - effective
  IN St(st.envelopes,
        SelectSeq(st.transactions, LAMBDA tx : tx.timestamp >= cutoff))

mergeNote(name) == "Auto-merge from deleted envelope \"" \o name \o "\""

\* a variant that marks the envelope inactive even when the confirm() is declined
deleteEnvelope_DeclineDeactivates(st, id, ok, txId, ts) ==
  LET i == FindEnvelope(st.envelopes, id)
      income == getIncomeEnvelope(st.envelopes)
  IN
  IF i = 0 THEN st
  ELSE IF isCoreEnvelope(st.envelopes[i]) THEN st
  ELSE IF income = 0 THEN st
  ELSE
    LET env == st.envelopes[i]
        merged ==
          IF env.balanceCents # 0 /\ ok
          THEN addTransaction(st, env.id, st.envelopes[income].id,
                              centsAsDollars(env.balanceCents),
                              mergeNote(env.name), TRUE, txId, ts)
          ELSE st
    IN St([merged.envelopes EXCEPT ![i].isActive = FALSE], merged.transactions)

\* deleteEnvelope(id); ok is the answer to the confirm() shown for a nonzero balance
deleteEnvelope(st, id, ok, txId, ts) ==
  LET i == FindEnvelope(st.envelopes, id)
      income == getIncomeEnvelope(st.envelopes)
  IN
  IF i = 0 THEN st
  ELSE IF isCoreEnvelope(st.envelopes[i]) THEN st
  ELSE IF income = 0 THEN st
  ELSE IF st.envelopes[i].balanceCents # 0 /\ ~ok THEN st
  ELSE
    LET env == st.envelopes[i]
        merged ==
          IF env.balanceCents # 0
          THEN addTransaction(st, env.id, st.envelopes[income].id,
                              centsAsDollars(env.balanceCents),
                              mergeNote(env.name), TRUE, txId, ts)
          ELSE st
    IN St([merged.envelopes EXCEPT ![i].isActive = FALSE], merged.transactions)

\* a variant of the card's Delete button without the test of the balance
deleteCard_NoBalanceTest(st, i, ok, txId, ts) ==
  IF ~ok THEN st
  ELSE deleteEnvelope(st, st.envelopes[i].id, TRUE, txId, ts)

\* the Delete button of the row renderCreditCards draws for the card at index i:
\* refuses while the balance is not 0, asks its own confirm(), then calls
\* deleteEnvelope(env.id), which at balance 0 shows no confirm()
deleteCard(st, i, ok, txId, ts) ==
  IF st.envelopes[i].balanceCents # 0 THEN st
  ELSE IF ~ok THEN st
  ELSE deleteEnvelope(st, st.envelopes[i].id, TRUE, txId, ts)

\* the selection of autoAllocate, as indices in collection order
isTarget(env) ==
  env.isActive /\ ~isCoreEnvelope(env) /\ ~env.isCreditCard /\ env.targetCents > 0

allocationTargets(envs) == {i \in 1..Len(envs) : isTarget(envs[i])}

RECURSIVE allocateFrom(_, _, _, _)
\* targets.forEach from index k on: one unlogged transfer per selected envelope
allocateFrom(st, original, incomeId, k) ==
  IF k > Len(original) THEN st
  ELSE IF isTarget(original[k])
  THEN allocateFrom(
         addTransaction(st, incomeId, original[k].id,
                        centsAsDollars(original[k].targetCents),
                        "Auto allocation", FALSE, 0, 0),
         original, incomeId, k + 1)
  ELSE allocateFrom(st, original, incomeId, k + 1)

\* a variant that transfers whatever the answer to the confirm() is
autoAllocate_IgnoresAnswer(st, ok) ==
  LET income == getIncomeEnvelope(st.envelopes) IN
  IF income = 0 THEN st
  ELSE IF allocationTargets(st.envelopes) = {} THEN st
  ELSE allocateFrom(st, st.envelopes, st.envelopes[income].id, 1)

\* autoAllocate(); ok is the answer to its confirm()
autoAllocate(st, ok) ==
  LET income == getIncomeEnvelope(st.envelopes) IN
  IF income = 0 THEN st
  ELSE IF allocationTargets(st.envelopes) = {} THEN st
  ELSE IF ~ok THEN st
  ELSE allocateFrom(st, st.envelopes, st.envelopes[income].id, 1)

RECURSIVE sumTargetCents(_, _)
\* .reduce((sum, env) => sum + env.targetCents, 0) over the filtered envelopes,
\* from index k on
sumTargetCents(envs, k) ==
  IF k > Len(envs) THEN 0
  ELSE (IF envs[k].targetCents > 0 THEN envs[k].targetCents ELSE 0)
       + sumTargetCents(envs, k + 1)

\* getTotalAllocationsCents(): its filter reads env.isCore and env.isCredit, two
\* properties no Envelope has (both undefined, so both tests pass), and does not
\* read isActive: every envelope with targetCents > 0 is summed
getTotalAllocationsCents(envs) == sumTargetCents(envs, 1)

-----------------------------------------------------------------------------
(* What loadState() can find in localStorage: nothing, or the blob an earlier *)
(* session saved.  saveState() runs after every operation, so every state    *)
(* the operations produce is a blob; the ones below are a sample of them.    *)

SavedIncome(balance, flag) ==
  Envelope("env_income", "Income", 0, balance, [isIncome |-> flag])

SavedOverflow == Envelope("env_overflow", "Overflow", 0, 0, [isOverflow |-> TRUE])

\* the two core envelopes as ensureCoreEnvelopes created them: untouched, after
\* an income of 0.02, and after updateEnvelope("env_income", {isIncome: false})
SavedCore ==
  {<<SavedIncome(0, TRUE), SavedOverflow>>,
   <<SavedIncome(2, TRUE), SavedOverflow>>,
   <<SavedIncome(0, FALSE), SavedOverflow>>}

\* the first envelope the user added: as added, funded, overspent, soft-deleted
\* at zero, and deactivated while holding money
SavedFirst ==
  {Envelope("env_1", "A", 1, 0, <<>>),
   Envelope("env_1", "A", 2, 1, <<>>),
   Envelope("env_1", "A", 0, -1, <<>>),
   Envelope("env_1", "A", 1, 0, [isActive |-> FALSE]),
   Envelope("env_1", "A", 1, 1, [isActive |-> FALSE])}

\* the second one: a plain envelope, a card (paid or owing), an envelope added
\* with the isIncome flag
SavedSecond ==
  {Envelope("env_2", "B", 1, 0, <<>>),
   Envelope("card_2", "Visa", 0, 0, [isCreditCard |-> TRUE]),
   Envelope("card_2", "Visa", 0, 1, [isCreditCard |-> TRUE]),
   Envelope("env_2", "B", 1, 0, [isIncome |-> TRUE])}

SavedEnvelopes ==
  SavedCore
  \cup {core \o <<first>> : core \in SavedCore, first \in SavedFirst}
  \cup {core \o <<first, second>> :
          core \in SavedCore, first \in SavedFirst, second \in SavedSecond}

\* ledgers of one or two entries: a deposit, a spend, a transfer, a merge left by
\* deleteEnvelope, an entry naming an unknown id, a self-transfer, a negative one,
\* a spend older than either retention window
SavedTransactions ==
  {<<>>,
   <<Transaction(1, 0, null, "env_income", 1, "Income")>>,
   <<Transaction(1, 15, "env_1", null, 1, "")>>,
   <<Transaction(1, 45, "env_income", "env_1", 2, "")>>,
   <<Transaction(1, 0, "env_1", "env_income", 1, ""),
     Transaction(2, 45, null, "env_1", 1, "")>>,
   <<Transaction(1, 15, GhostId, "env_1", 1, "")>>,
   <<Transaction(1, 45, "env_1", "env_1", 1, "")>>,
   <<Transaction(1, 0, "card_2", null, -1, "")>>,
   <<Transaction(1, 0, "env_1", null, 1, "")>>}

SavedBlobs ==
  {[envelopes |-> <<>>, transactions |-> <<>>, retentionDays |-> 30]}
  \cup {[envelopes |-> envs, transactions |-> txs, retentionDays |-> days] :
          envs \in SavedEnvelopes, txs \in SavedTransactions,
          days \in RetentionSettings}

-----------------------------------------------------------------------------
(* The state machine *)

NoUndo == [op |-> "none"]

\* the ids a caller can name: every envelope's id, and one that resolves to nothing
EnvIdInputs == {envelopes[i].id : i \in 1..Len(envelopes)} \cup {GhostId}
TxIdInputs == {transactions[i].id : i \in 1..Len(transactions)} \cup {0}

\* addEnvelope(name, targetDollars, flags): the button passes no flags
AddEnvelopeInputs ==
  {[name |-> "C", targetDollars |-> 0, flags |-> <<>>],
   [name |-> "C", targetDollars |-> 10, flags |-> <<>>],
   [name |-> "C", targetDollars |-> 6, flags |-> [isIncome |-> TRUE]],
   [name |-> "", targetDollars |-> 10, flags |-> <<>>]}

EnvelopePatches ==
  {<<>>, [name |-> "Z", targetDollars |-> 20], [name |-> "Z"],
   [isIncome |-> FALSE], [isIncome |-> TRUE], [isOverflow |-> TRUE],
   [isActive |-> FALSE], [isCreditCard |-> TRUE]}

\* amountDollars (in mills) and log: 0.01 logged and unlogged, -0.01, 0.006
\* (rounds up to a cent) and 0.004 (rounds to nothing)
TransferInputs ==
  {[amountDollars |-> 10, log |-> TRUE], [amountDollars |-> 10, log |-> FALSE],
   [amountDollars |-> -10, log |-> TRUE], [amountDollars |-> 6, log |-> TRUE],
   [amountDollars |-> 4, log |-> TRUE]}

TransactionPatches ==
  {<<>>, [amountDollars |-> 20, note |-> "n"], [amountDollars |-> 0]}
  \cup {[fromEnvelopeId |-> x] : x \in EnvIdInputs \cup {null}}
  \cup {[toEnvelopeId |-> x] : x \in EnvIdInputs \cup {null}}

freshEnvId(prefix) == prefix \o ToString(nextEnvId + 1)

Current == St(envelopes, transactions)

\* what every step leaves behind for the properties below
Record(op, args) ==
  /\ lastOp' = op
  /\ lastArgs' = args
  /\ preEnvelopes' = envelopes
  /\ preTransactions' = transactions

\* a handler's call of an operation, ending in the state `st`
Call(op, args, st) ==
  /\ pc = "ready"
  /\ envelopes' = st.envelopes
  /\ transactions' = st.transactions
  /\ Record(op, args)
  /\ UNCHANGED <<retentionDays, now, pc>>

Budgeted == calls < MaxCalls /\ calls' = calls + 1

\* let state = new State()
Init ==
  /\ envelopes = <<>>
  /\ transactions = <<>>
  /\ retentionDays = 30
  /\ now \in Today
  /\ nextEnvId = 2
  /\ nextTxId = 2
  /\ pc = "load"
  /\ calls = 0
  /\ lastOp = "new"
  /\ lastArgs = <<>>
  /\ preEnvelopes = <<>>
  /\ preTransactions = <<>>
  /\ undoOf = NoUndo

\* init(), first statement
LoadState ==
  /\ pc = "load"
  /\ \E blob \in SavedBlobs :
       /\ envelopes' = loadState(blob.envelopes)
       /\ transactions' = blob.transactions
       /\ retentionDays' = blob.retentionDays
  /\ pc' = "ensure"
  /\ Record("loadState", <<>>)
  /\ undoOf' = NoUndo
  /\ UNCHANGED <<now, nextEnvId, nextTxId, calls>>

\* init(), second statement
EnsureCoreEnvelopes ==
  /\ pc = "ensure"
  /\ envelopes' = ensureCoreEnvelopes(envelopes)
  /\ pc' = "prune"
  /\ Record("ensureCoreEnvelopes", <<>>)
  /\ undoOf' = NoUndo
  /\ UNCHANGED <<transactions, retentionDays, now, nextEnvId, nextTxId, calls>>

\* init(), third statement; also called on its own
PruneOldTransactions ==
  /\ \/ pc = "prune" /\ pc' = "cleanup" /\ calls' = calls
     \/ pc = "ready" /\ pc' = "ready" /\ Budgeted
  /\ LET after == pruneOldTransactions(Current, retentionDays, now) IN
       envelopes' = after.envelopes /\ transactions' = after.transactions
  /\ Record("pruneOldTransactions", <<>>)
  /\ undoOf' = NoUndo
  /\ UNCHANGED <<retentionDays, now, nextEnvId, nextTxId>>

\* init() with its last two statements exchanged: the collector reads the
\* ledger as it was loaded, the pruning comes after it
CleanupUnusedEnvelopes_BeforePrune ==
  /\ \/ pc = "cleanup" /\ pc' = "ready" /\ calls' = calls
     \/ pc = "ready" /\ pc' = "ready" /\ Budgeted
  /\ LET seen == IF pc = "cleanup" THEN preTransactions ELSE transactions
         after == cleanupUnusedEnvelopes(St(envelopes, seen))
     IN envelopes' = after.envelopes /\ transactions' = transactions
  /\ Record("cleanupUnusedEnvelopes",
            IF pc = "cleanup" THEN [loaded |-> preTransactions] ELSE <<>>)
  /\ undoOf' = NoUndo
  /\ UNCHANGED <<retentionDays, now, nextEnvId, nextTxId>>

\* init(), fourth statement; also called on its own.  In init() the step before
\* is the pruning, so preTransactions is the ledger as loaded: it is kept in
\* lastArgs.
CleanupUnusedEnvelopes ==
  /\ \/ pc = "cleanup" /\ pc' = "ready" /\ calls' = calls
     \/ pc = "ready" /\ pc' = "ready" /\ Budgeted
  /\ LET after == cleanupUnusedEnvelopes(Current) IN
       envelopes' = after.envelopes /\ transactions' = after.transactions
  /\ Record("cleanupUnusedEnvelopes",
            IF pc = "cleanup" THEN [loaded |-> preTransactions] ELSE <<>>)
  /\ undoOf' = NoUndo
  /\ UNCHANGED <<retentionDays, now, nextEnvId, nextTxId>>

AddEnvelope ==
  \E in \in AddEnvelopeInputs :
    /\ Budgeted
    /\ Call("addEnvelope", in,
            St(addEnvelope(envelopes, freshEnvId("env_"), in.name,
                           in.targetDollars, in.flags),
               transactions))
    /\ nextEnvId' = IF in.name = "" THEN nextEnvId ELSE nextEnvId + 1
    /\ undoOf' = NoUndo
    /\ UNCHANGED nextTxId

AddCreditCardEnvelope ==
  \E name \in {"Amex", ""} :
    /\ Budgeted
    /\ Call("addCreditCardEnvelope", [name |-> name],
            St(addCreditCardEnvelope(envelopes, freshEnvId("card_"), name),
               transactions))
    /\ nextEnvId' = IF name = "" THEN nextEnvId ELSE nextEnvId + 1
    /\ undoOf' = NoUndo
    /\ UNCHANGED nextTxId

UpdateEnvelope ==
  \E id \in EnvIdInputs, updates \in EnvelopePatches :
    /\ Budgeted
    /\ Call("updateEnvelope",
            [id |-> id, updates |-> updates, index |-> FindEnvelope(envelopes, id)],
            St(updateEnvelope(envelopes, id, updates), transactions))
    /\ undoOf' = NoUndo
    /\ UNCHANGED <<nextEnvId, nextTxId>>

DeleteEnvelope ==
  \E id \in EnvIdInputs, ok \in BOOLEAN :
    LET after == deleteEnvelope(Current, id, ok, nextTxId + 1, now) IN
    /\ Budgeted
    /\ Call("deleteEnvelope",
            [id |-> id, ok |-> ok, index |-> FindEnvelope(envelopes, id),
             income |-> getIncomeEnvelope(envelopes), txId |-> nextTxId + 1],
            after)
    /\ nextTxId' = IF Len(after.transactions) > Len(transactions)
                   THEN nextTxId + 1 ELSE nextTxId
    /\ undoOf' = NoUndo
    /\ UNCHANGED nextEnvId

\* the rows of renderCreditCards: the active credit cards
CardRows ==
  {i \in 1..Len(envelopes) : envelopes[i].isActive /\ envelopes[i].isCreditCard}

DeleteCard ==
  \E i \in CardRows, ok \in BOOLEAN :
    LET after == deleteCard(Current, i, ok, nextTxId + 1, now) IN
    /\ Budgeted
    /\ Call("deleteCard",
            [index |-> i, id |-> envelopes[i].id, ok |-> ok,
             income |-> getIncomeEnvelope(envelopes)],
            after)
    /\ nextTxId' = IF Len(after.transactions) > Len(transactions)
                   THEN nextTxId + 1 ELSE nextTxId
    /\ undoOf' = NoUndo
    /\ UNCHANGED nextEnvId

AddTransaction ==
  \E from \in EnvIdInputs \cup {null}, to \in EnvIdInputs \cup {null},
     in \in TransferInputs :
    LET after == addTransaction(Current, from, to, in.amountDollars, "", in.log,
                                nextTxId + 1, now) IN
    /\ Budgeted
    /\ Call("addTransaction",
            [fromEnvelopeId |-> from, toEnvelopeId |-> to,
             amountDollars |-> in.amountDollars, note |-> "", log |-> in.log,
             txId |-> nextTxId + 1, timestamp |-> now],
            after)
    /\ nextTxId' = IF Len(after.transactions) > Len(transactions)
                   THEN nextTxId + 1 ELSE nextTxId
    /\ undoOf' = NoUndo
    /\ UNCHANGED nextEnvId

\* addIncome(amountDollars, note): refuses without an Income envelope
AddIncome ==
  \E amount \in {10, 4}, note \in {"", "New Income"} :
    LET income == getIncomeEnvelope(envelopes)
        after == IF income = 0 THEN Current
                 ELSE addTransaction(Current, null, envelopes[income].id, amount,
                                     IF note = "" THEN "Income" ELSE note, TRUE,
                                     nextTxId + 1, now)
    IN
    /\ Budgeted
    /\ Call("addIncome",
            [fromEnvelopeId |-> null,
             toEnvelopeId |-> IF income = 0 THEN null ELSE envelopes[income].id,
             amountDollars |-> amount,
             note |-> IF note = "" THEN "Income" ELSE note, log |-> TRUE,
             txId |-> nextTxId + 1, timestamp |-> now, income |-> income],
            after)
    /\ nextTxId' = IF Len(after.transactions) > Len(transactions)
                   THEN nextTxId + 1 ELSE nextTxId
    /\ undoOf' = NoUndo
    /\ UNCHANGED nextEnvId

UpdateTransaction ==
  \E id \in TxIdInputs, updates \in TransactionPatches :
    /\ Budgeted
    /\ Call("updateTransaction",
            [id |-> id, updates |-> updates, index |-> FindTransaction(transactions, id)],
            updateTransaction(Current, id, updates))
    /\ undoOf' = NoUndo
    /\ UNCHANGED <<nextEnvId, nextTxId>>

\* the step before appended exactly the entry `id`
JustAppended(id) ==
  /\ lastOp \in {"addTransaction", "addIncome", "deleteEnvelope"}
  /\ Len(transactions) = Len(preTransactions) + 1
  /\ transactions[Len(transactions)].id = id

\* deleteTransaction(id); deleting the entry the step before has just appended
\* (its undo) is not counted as a call: each append allows one
DeleteTransaction ==
  \E id \in TxIdInputs :
    /\ \/ JustAppended(id) /\ calls' = calls
       \/ ~JustAppended(id) /\ Budgeted
    /\ Call("deleteTransaction",
            [id |-> id, index |-> FindTransaction(transactions, id)],
            deleteTransaction(Current, id))
    /\ undoOf' = IF JustAppended(id)
                 THEN [op |-> lastOp, args |-> lastArgs,
                       envelopes |-> preEnvelopes, transactions |-> preTransactions]
                 ELSE NoUndo
    /\ UNCHANGED <<nextEnvId, nextTxId>>

AutoAllocate ==
  \E ok \in BOOLEAN :
    /\ Budgeted
    /\ Call("autoAllocate",
            [ok |-> ok, income |-> getIncomeEnvelope(envelopes)],
            autoAllocate(Current, ok))
    /\ undoOf' = NoUndo
    /\ UNCHANGED <<nextEnvId, nextTxId>>

Next ==
  \/ LoadState
  \/ EnsureCoreEnvelopes
  \/ PruneOldTransactions
  \/ CleanupUnusedEnvelopes
  \/ AddEnvelope
  \/ AddCreditCardEnvelope
  \/ UpdateEnvelope
  \/ DeleteEnvelope
  \/ DeleteCard
  \/ AddTransaction
  \/ AddIncome
  \/ UpdateTransaction
  \/ DeleteTransaction
  \/ AutoAllocate

Spec == Init /\ [][Next]_vars

-----------------------------------------------------------------------------
(* Sessions that open with an updateEnvelope of the isIncome flag: cleared on *)
(* the Income envelope (the calls that follow find no Income envelope), or   *)
(* set on an inactive envelope (the calls that follow find an inactive core  *)
(* envelope).                                                                *)

UpdateEnvelopeIsIncome ==
  \E id \in EnvIdInputs, flag \in BOOLEAN :
    LET income == getIncomeEnvelope(envelopes)
        index == FindEnvelope(envelopes, id)
    IN
    /\ calls = 0
    /\ lastOp = "cleanupUnusedEnvelopes"
    /\ index # 0
    /\ IF flag THEN ~envelopes[index].isActive
       ELSE income # 0 /\ id = envelopes[income].id
    /\ Call("updateEnvelope",
            [id |-> id, updates |-> [isIncome |-> flag], index |-> index],
            St(updateEnvelope(envelopes, id, [isIncome |-> flag]), transactions))
    /\ undoOf' = NoUndo
    /\ UNCHANGED <<nextEnvId, nextTxId, calls>>

NextDemoted ==
  \/ Next
  \/ UpdateEnvelopeIsIncome

SpecDemoted == Init /\ [][NextDemoted]_vars

-----------------------------------------------------------------------------
(* The balance engine on its own: one transaction applied to the loaded and  *)
(* repaired state, then rolled back.                                         *)

EngineTransactions ==
  {Transaction(9, now, from, to, amountCents, "") :
     from \in EnvIdInputs \cup {null}, to \in EnvIdInputs \cup {null},
     amountCents \in {1, -2}}

ApplyTransaction ==
  /\ pc = "prune"
  /\ \E tx \in EngineTransactions :
       /\ envelopes' = applyTransactionToBalances(envelopes, tx, 1)
       /\ Record("apply", [tx |-> tx])
  /\ pc' = "applied"
  /\ UNCHANGED <<transactions, retentionDays, now, nextEnvId, nextTxId, calls,
                 undoOf>>

RollbackTransaction ==
  /\ pc = "applied"
  /\ envelopes' = applyTransactionToBalances(envelopes, lastArgs.tx, -1)
  /\ pc' = "rolledBack"
  /\ UNCHANGED <<transactions, retentionDays, now, nextEnvId, nextTxId, calls,
                 lastOp, lastArgs, preEnvelopes, preTransactions, undoOf>>

NextEngine ==
  \/ LoadState
  \/ EnsureCoreEnvelopes
  \/ ApplyTransaction
  \/ RollbackTransaction

SpecEngine == Init /\ [][NextEngine]_vars

-----------------------------------------------------------------------------
(* The repair on its own: ensureCoreEnvelopes run twice on whatever envelopes *)
(* the stored blob holds (a backup can be imported, and updateEnvelope writes *)
(* every flag), whatever their flags and targets.                             *)

StoredShapes ==
  [isIncome : BOOLEAN, isOverflow : BOOLEAN, isActive : BOOLEAN,
   targetCents : {0, 1}]

StoredEnvelopes ==
  UNION {[1..n -> StoredShapes] : n \in 0..MaxStored}

\* init(), first statement, on a stored collection of any flags
LoadStoredEnvelopes ==
  /\ pc = "load"
  /\ \E stored \in StoredEnvelopes :
       envelopes' =
         loadState([i \in 1..Len(stored) |->
                      [id |-> "env_" \o ToString(i), name |-> "E",
                       targetCents |-> stored[i].targetCents, balanceCents |-> 0,
                       isIncome |-> stored[i].isIncome,
                       isOverflow |-> stored[i].isOverflow,
                       isCreditCard |-> FALSE, isActive |-> stored[i].isActive]])
  /\ pc' = "ensure"
  /\ Record("loadState", <<>>)
  /\ UNCHANGED <<transactions, retentionDays, now, nextEnvId, nextTxId, calls,
                 undoOf>>

\* ensureCoreEnvelopes() called once more, right after the call of init()
EnsureCoreEnvelopesAgain ==
  /\ pc = "prune"
  /\ envelopes' = ensureCoreEnvelopes(envelopes)
  /\ pc' = "ensuredTwice"
  /\ Record("ensureCoreEnvelopes", [loaded |-> preEnvelopes])
  /\ UNCHANGED <<transactions, retentionDays, now, nextEnvId, nextTxId, calls,
                 undoOf>>

NextRepair ==
  \/ LoadStoredEnvelopes
  \/ EnsureCoreEnvelopes
  \/ EnsureCoreEnvelopesAgain

SpecRepair == Init /\ [][NextRepair]_vars

-----------------------------------------------------------------------------
(* Properties *)

Balances(envs) == [i \in 1..Len(envs) |-> envs[i].balanceCents]

\* index of the envelope an id of a transaction resolves to, 0 if absent or unknown
Resolve(envs, id) == IF id = null THEN 0 ELSE FindEnvelope(envs, id)

RECURSIVE SumTargets(_, _)
SumTargets(envs, S) ==
  IF S = {} THEN 0
  ELSE LET i == CHOOSE x \in S : TRUE
       IN envs[i].targetCents + SumTargets(envs, S \ {i})

Abs(n) == IF n < 0 THEN 0 - n ELSE n

\* C1: after loadState and ensureCoreEnvelopes, whatever the operations called,
\* exactly one envelope has isIncome and exactly one has isOverflow, and both are
\* active with target 0.
CoreEnvelopesInvariant_C1 ==
  pc \in {"prune", "cleanup", "ready"} =>
    /\ Cardinality({i \in 1..Len(envelopes) : envelopes[i].isIncome}) = 1
    /\ Cardinality({i \in 1..Len(envelopes) : envelopes[i].isOverflow}) = 1
    /\ \A i \in 1..Len(envelopes) :
         isCoreEnvelope(envelopes[i]) =>
           envelopes[i].isActive /\ envelopes[i].targetCents = 0

\* C2: applyTransactionToBalances(tx, +1) followed by applyTransactionToBalances(tx, -1)
\* leaves every envelope as it was, for absent, unknown and equal ids alike; a side
\* whose id resolves to nothing changes no envelope.
RollbackExact_C2 ==
  LET tx == lastArgs.tx
      f == Resolve(preEnvelopes, tx.fromEnvelopeId)
      t == Resolve(preEnvelopes, tx.toEnvelopeId)
  IN /\ pc = "rolledBack" => envelopes = preEnvelopes
     /\ pc = "applied" =>
          /\ Len(envelopes) = Len(preEnvelopes)
          /\ \A i \in 1..Len(envelopes) :
               (i # f /\ i # t) => envelopes[i] = preEnvelopes[i]

RollbackExactWitness_C2 ==
  /\ pc = "rolledBack"
  /\ lastArgs.tx.fromEnvelopeId = GhostId
  /\ Resolve(preEnvelopes, lastArgs.tx.toEnvelopeId) # 0

\* the step was an addTransaction that reached the ledger code
IsAddTransaction ==
  lastOp = "addTransaction" \/ (lastOp = "addIncome" /\ lastArgs.income # 0)

AppendedEntry ==
  Transaction(lastArgs.txId, lastArgs.timestamp, lastArgs.fromEnvelopeId,
              lastArgs.toEnvelopeId, dollarsToCents(lastArgs.amountDollars),
              lastArgs.note)

\* C3 as stated: an amount of zero cents changes nothing; otherwise the envelope
\* from resolves to loses amountCents, the envelope to resolves to gains
\* amountCents, no other balance changes, and the entry is appended exactly when
\* log is true.
AddTransactionEffectAsStated_C3 ==
  IsAddTransaction =>
    LET a == dollarsToCents(lastArgs.amountDollars)
        f == Resolve(preEnvelopes, lastArgs.fromEnvelopeId)
        t == Resolve(preEnvelopes, lastArgs.toEnvelopeId)
    IN IF a = 0
       THEN envelopes = preEnvelopes /\ transactions = preTransactions
       ELSE /\ Len(envelopes) = Len(preEnvelopes)
            /\ f # 0 => envelopes[f].balanceCents = preEnvelopes[f].balanceCents - a
            /\ t # 0 => envelopes[t].balanceCents = preEnvelopes[t].balanceCents + a
            /\ \A i \in 1..Len(envelopes) :
                 (i # f /\ i # t) =>
                   envelopes[i].balanceCents = preEnvelopes[i].balanceCents
            /\ transactions = IF lastArgs.log
                              THEN Append(preTransactions, AppendedEntry)
                              ELSE preTransactions

\* C3, amended: as stated when from and to resolve to different envelopes; when
\* both resolve to the same envelope its balance is debited and credited, so it
\* does not change.
AddTransactionEffect_C3 ==
  IsAddTransaction =>
    LET a == dollarsToCents(lastArgs.amountDollars)
        f == Resolve(preEnvelopes, lastArgs.fromEnvelopeId)
        t == Resolve(preEnvelopes, lastArgs.toEnvelopeId)
    IN IF a = 0
       THEN envelopes = preEnvelopes /\ transactions = preTransactions
       ELSE /\ Len(envelopes) = Len(preEnvelopes)
            /\ \A i \in 1..Len(envelopes) :
                 envelopes[i].balanceCents =
                   preEnvelopes[i].balanceCents
                   - (IF i = f THEN a ELSE 0) + (IF i = t THEN a ELSE 0)
            /\ transactions = IF lastArgs.log
                              THEN Append(preTransactions, AppendedEntry)
                              ELSE preTransactions

AddTransactionEffectWitness_C3 ==
  /\ lastOp = "addTransaction"
  /\ dollarsToCents(lastArgs.amountDollars) # 0
  /\ Resolve(preEnvelopes, lastArgs.fromEnvelopeId) # 0
  /\ Resolve(preEnvelopes, lastArgs.fromEnvelopeId)
       = Resolve(preEnvelopes, lastArgs.toEnvelopeId)
  /\ ~lastArgs.log

\* C4: deleteTransaction(id) of a stored entry gives its amount back to the from
\* envelope and takes it from the to envelope, changes no other balance and
\* removes that entry only; right after the addTransaction that appended the
\* entry it restores all balances and the list; an unknown id changes nothing.
DeleteTransactionReverses_C4 ==
  lastOp = "deleteTransaction" =>
    IF lastArgs.index = 0
    THEN envelopes = preEnvelopes /\ transactions = preTransactions
    ELSE
      LET tx == preTransactions[lastArgs.index]
          f == Resolve(preEnvelopes, tx.fromEnvelopeId)
          t == Resolve(preEnvelopes, tx.toEnvelopeId)
      IN /\ Len(envelopes) = Len(preEnvelopes)
         /\ \A i \in 1..Len(envelopes) :
              envelopes[i].balanceCents =
                preEnvelopes[i].balanceCents
                + (IF i = f THEN tx.amountCents ELSE 0)
                - (IF i = t THEN tx.amountCents ELSE 0)
         /\ transactions = SubSeq(preTransactions, 1, lastArgs.index - 1)
                           \o SubSeq(preTransactions, lastArgs.index + 1,
                                     Len(preTransactions))
         /\ undoOf.op \in {"addTransaction", "addIncome"} =>
              /\ Balances(envelopes) = Balances(undoOf.envelopes)
              /\ transactions = undoOf.transactions

DeleteTransactionReversesWitness_C4 ==
  /\ lastOp = "deleteTransaction"
  /\ undoOf.op = "addTransaction"
  /\ Resolve(undoOf.envelopes, undoOf.args.fromEnvelopeId) # 0
  /\ Resolve(undoOf.envelopes, undoOf.args.toEnvelopeId) # 0
  /\ Resolve(undoOf.envelopes, undoOf.args.fromEnvelopeId)
       # Resolve(undoOf.envelopes, undoOf.args.toEnvelopeId)
  /\ Len(undoOf.transactions) > 0

\* C5: updateTransaction(id, {}) leaves every envelope and the whole ledger
\* (the entry, its fields and its position) as they were.
UpdateTransactionIdentity_C5 ==
  (lastOp = "updateTransaction" /\ DOMAIN lastArgs.updates = {}) =>
    envelopes = preEnvelopes /\ transactions = preTransactions

UpdateTransactionIdentityWitness_C5 ==
  /\ lastOp = "updateTransaction"
  /\ DOMAIN lastArgs.updates = {}
  /\ lastArgs.index # 0
  /\ Resolve(preEnvelopes, preTransactions[lastArgs.index].fromEnvelopeId) # 0
  /\ Resolve(preEnvelopes, preTransactions[lastArgs.index].toEnvelopeId) # 0

\* C6: a confirmed deleteEnvelope of a non-core envelope E with balance b # 0,
\* with an Income envelope present, appends one entry from E to Income of
\* amountCents |b|, leaves E at 0 and inactive but present, and moves Income's
\* balance by b; with b = 0 it appends nothing and only marks E inactive.
DeleteEnvelopeMerge_C6 ==
  (/\ lastOp = "deleteEnvelope"
   /\ lastArgs.index # 0
   /\ lastArgs.income # 0) =>
    LET e == lastArgs.index
        inc == lastArgs.income
        b == preEnvelopes[e].balanceCents
    IN (~isCoreEnvelope(preEnvelopes[e]) /\ (b = 0 \/ lastArgs.ok)) =>
         IF b = 0
         THEN /\ transactions = preTransactions
              /\ envelopes = [preEnvelopes EXCEPT ![e].isActive = FALSE]
         ELSE /\ Len(transactions) = Len(preTransactions) + 1
              /\ SubSeq(transactions, 1, Len(preTransactions)) = preTransactions
              /\ LET tx == transactions[Len(transactions)]
                 IN /\ tx.fromEnvelopeId = preEnvelopes[e].id
                    /\ tx.toEnvelopeId = preEnvelopes[inc].id
                    /\ tx.amountCents = Abs(b)
              /\ Len(envelopes) = Len(preEnvelopes)
              /\ envelopes[e].balanceCents = 0
              /\ envelopes[inc].balanceCents = preEnvelopes[inc].balanceCents + b
              /\ ~envelopes[e].isActive

\* C7 as stated: deleting the merge entry right after the deleteEnvelope that
\* appended it gives back the state before deleteEnvelope.
UndoMergeAsStated_C7 ==
  (lastOp = "deleteTransaction" /\ undoOf.op = "deleteEnvelope") =>
    envelopes = undoOf.envelopes /\ transactions = undoOf.transactions

\* C7, amended: it gives back every balance and the ledger and leaves E active;
\* the only fields that can differ from the state before deleteEnvelope are the
\* isActive of the two envelopes the merge entry names, which end TRUE.
UndoMerge_C7 ==
  (lastOp = "deleteTransaction" /\ undoOf.op = "deleteEnvelope") =>
    LET before == undoOf.envelopes
        e == undoOf.args.index
        t == Resolve(before, before[undoOf.args.income].id)
    IN /\ transactions = undoOf.transactions
       /\ Len(envelopes) = Len(before)
       /\ envelopes[e].isActive
       /\ envelopes[e].balanceCents = before[e].balanceCents
       /\ \A i \in 1..Len(envelopes) :
            envelopes[i] =
              [before[i] EXCEPT !.isActive = IF i = e \/ i = t THEN TRUE ELSE @]

UndoMergeWitness_C7 ==
  /\ lastOp = "deleteTransaction"
  /\ undoOf.op = "deleteEnvelope"
  /\ undoOf.envelopes[undoOf.args.index].isActive
  /\ undoOf.envelopes[undoOf.args.index].balanceCents < 0
  /\ envelopes = undoOf.envelopes

\* C8: a confirmed autoAllocate takes the sum of the selected targets from
\* Income, adds to each selected envelope its own target, changes no other
\* balance and appends nothing to the ledger.
AutoAllocateEffect_C8 ==
  (/\ lastOp = "autoAllocate"
   /\ lastArgs.ok
   /\ lastArgs.income # 0
   /\ allocationTargets(preEnvelopes) # {}) =>
    LET S == allocationTargets(preEnvelopes)
        inc == lastArgs.income
    IN /\ Len(envelopes) = Len(preEnvelopes)
       /\ envelopes[inc].balanceCents =
            preEnvelopes[inc].balanceCents - SumTargets(preEnvelopes, S)
       /\ \A i \in S :
            envelopes[i].balanceCents =
              preEnvelopes[i].balanceCents + preEnvelopes[i].targetCents
       /\ \A i \in 1..Len(envelopes) :
            (i # inc /\ i \notin S) =>
              envelopes[i].balanceCents = preEnvelopes[i].balanceCents
       /\ transactions = preTransactions

\* C9: pruneOldTransactions changes no envelope, whatever it removes.
PruneLeavesEnvelopes_C9 ==
  lastOp = "pruneOldTransactions" => envelopes = preEnvelopes

PruneLeavesEnvelopesWitness_C9 ==
  /\ lastOp = "pruneOldTransactions"
  /\ Len(transactions) < Len(preTransactions)
  /\ \E k \in 1..Len(preTransactions) :
       /\ preTransactions[k].timestamp < now - 30
       /\ Resolve(envelopes, preTransactions[k].toEnvelopeId) # 0
  /\ \E i \in 1..Len(envelopes) : envelopes[i].balanceCents # 0

\* an envelope the collector may remove, in the words of the claim
Removable(env, txs) ==
  /\ ~env.isIncome /\ ~env.isOverflow
  /\ ~env.isActive
  /\ env.balanceCents = 0
  /\ \A k \in 1..Len(txs) :
       txs[k].fromEnvelopeId # env.id /\ txs[k].toEnvelopeId # env.id

\* C10: cleanupUnusedEnvelopes removes exactly the envelopes that are non-core,
\* inactive, at balance 0 and named by no entry of the ledger; it keeps every
\* other envelope unchanged and in order, and leaves the ledger alone.
CleanupRemovesExactly_C10 ==
  lastOp = "cleanupUnusedEnvelopes" =>
    /\ transactions = preTransactions
    /\ envelopes = SelectSeq(preEnvelopes,
                             LAMBDA env : ~Removable(env, preTransactions))

CleanupRemovesExactlyWitness_C10 ==
  /\ lastOp = "cleanupUnusedEnvelopes"
  /\ Len(envelopes) < Len(preEnvelopes)
  /\ transactions # <<>>
  /\ \E i \in 1..Len(preEnvelopes) : Removable(preEnvelopes[i], preTransactions)

\* C11: ensureCoreEnvelopes run a second time right after the first leaves the
\* state as the first run left it, whatever flags the loaded envelopes carried.
EnsureIdempotent_C11 ==
  pc = "ensuredTwice" => envelopes = preEnvelopes

EnsureIdempotentWitness_C11 ==
  /\ pc = "ensuredTwice"
  /\ Cardinality({i \in 1..Len(lastArgs.loaded) : lastArgs.loaded[i].isIncome}) > 1
  /\ \E i \in 1..Len(lastArgs.loaded) :
       /\ lastArgs.loaded[i].isIncome /\ lastArgs.loaded[i].isOverflow
       /\ ~lastArgs.loaded[i].isActive /\ lastArgs.loaded[i].targetCents # 0
  /\ envelopes # lastArgs.loaded

PositiveAmounts(txs) == \A k \in 1..Len(txs) : txs[k].amountCents > 0

\* C12: every stored transaction has amountCents > 0; stated on the steps: no
\* operation takes a ledger of positive amounts to one that holds an amount that
\* is zero or negative.
PositiveAmountsKept_C12 ==
  (lastOp \notin {"new", "loadState"} /\ PositiveAmounts(preTransactions)) =>
    PositiveAmounts(transactions)

\* deleteEnvelope(id) failed or was refused: id resolves to nothing or to a core
\* envelope, there is no Income envelope, or the confirm() was declined
DeleteEnvelopeRefused ==
  /\ lastOp = "deleteEnvelope"
  /\ \/ lastArgs.index = 0
     \/ isCoreEnvelope(preEnvelopes[lastArgs.index])
     \/ lastArgs.income = 0
     \/ (preEnvelopes[lastArgs.index].balanceCents # 0 /\ ~lastArgs.ok)

\* C13: a deleteEnvelope that fails or is refused leaves the envelopes and the
\* ledger exactly as they were.
DeleteEnvelopeRefusedNoChange_C13 ==
  DeleteEnvelopeRefused =>
    envelopes = preEnvelopes /\ transactions = preTransactions

DeleteEnvelopeRefusedNoChangeWitness_C13 ==
  /\ DeleteEnvelopeRefused
  /\ lastArgs.index # 0
  /\ ~isCoreEnvelope(preEnvelopes[lastArgs.index])
  /\ lastArgs.income = 0
  /\ preEnvelopes[lastArgs.index].balanceCents # 0
  /\ preEnvelopes[lastArgs.index].isActive
  /\ lastArgs.ok

\* autoAllocate() failed or was refused: no Income envelope, nothing selected, or
\* the confirm() declined
AutoAllocateRefused ==
  /\ lastOp = "autoAllocate"
  /\ \/ lastArgs.income = 0
     \/ allocationTargets(preEnvelopes) = {}
     \/ ~lastArgs.ok

\* C14: an autoAllocate that fails or is refused leaves the envelopes and the
\* ledger exactly as they were; one that goes ahead credits every selected
\* envelope with its target, never only some of them.
AutoAllocateAllOrNothing_C14 ==
  lastOp = "autoAllocate" =>
    IF AutoAllocateRefused
    THEN envelopes = preEnvelopes /\ transactions = preTransactions
    ELSE LET from == Resolve(preEnvelopes, preEnvelopes[lastArgs.income].id)
         IN \A i \in allocationTargets(preEnvelopes) :
              i # from =>
                envelopes[i].balanceCents =
                  preEnvelopes[i].balanceCents + preEnvelopes[i].targetCents

AutoAllocateAllOrNothingWitness_C14 ==
  /\ AutoAllocateRefused
  /\ lastArgs.income = 0
  /\ allocationTargets(preEnvelopes) # {}
  /\ lastArgs.ok

\* the entry updateTransaction builds from the stored one and the patch
PatchedEntry(old, updates) ==
  [id |-> old.id,
   timestamp |-> old.timestamp,
   fromEnvelopeId |-> IF "fromEnvelopeId" \in DOMAIN updates
                      THEN updates.fromEnvelopeId ELSE old.fromEnvelopeId,
   toEnvelopeId |-> IF "toEnvelopeId" \in DOMAIN updates
                    THEN updates.toEnvelopeId ELSE old.toEnvelopeId,
   amountCents |-> IF "amountDollars" \in DOMAIN updates
                   THEN dollarsToCents(updates.amountDollars) ELSE old.amountCents,
   note |-> IF "note" \in DOMAIN updates THEN updates.note ELSE old.note]

\* change of the balance of envelope i when tx is applied in the given direction
BalanceEffect(envs, tx, i, direction) ==
  direction * ((IF i = Resolve(envs, tx.toEnvelopeId) THEN tx.amountCents ELSE 0)
               - (IF i = Resolve(envs, tx.fromEnvelopeId) THEN tx.amountCents ELSE 0))

\* C15: updateTransaction(id, patch) on a stored entry leaves the balances of a
\* rollback of the old entry followed by the new one, stores the new entry (old
\* id and timestamp, patched fields) at the old position, changes no other
\* entry and nothing of an envelope but its balance; an unknown id changes
\* nothing.
UpdateTransactionEffect_C15 ==
  lastOp = "updateTransaction" =>
    IF lastArgs.index = 0
    THEN envelopes = preEnvelopes /\ transactions = preTransactions
    ELSE
      LET old == preTransactions[lastArgs.index]
          new == PatchedEntry(old, lastArgs.updates)
      IN /\ Len(transactions) = Len(preTransactions)
         /\ \A k \in 1..Len(transactions) :
              transactions[k] = IF k = lastArgs.index THEN new
                                ELSE preTransactions[k]
         /\ Len(envelopes) = Len(preEnvelopes)
         /\ \A i \in 1..Len(envelopes) :
              /\ envelopes[i].balanceCents =
                   preEnvelopes[i].balanceCents
                   + BalanceEffect(preEnvelopes, old, i, -1)
                   + BalanceEffect(preEnvelopes, new, i, 1)
              /\ envelopes[i].isActive = preEnvelopes[i].isActive
              /\ [envelopes[i] EXCEPT !.balanceCents = 0]
                   = [preEnvelopes[i] EXCEPT !.balanceCents = 0]

UpdateTransactionEffectWitness_C15 ==
  /\ lastOp = "updateTransaction"
  /\ lastArgs.index = 1
  /\ Len(preTransactions) = 2
  /\ "amountDollars" \in DOMAIN lastArgs.updates
  /\ "note" \in DOMAIN lastArgs.updates
  /\ Resolve(preEnvelopes, preTransactions[1].fromEnvelopeId) # 0
  /\ Resolve(preEnvelopes, preTransactions[1].toEnvelopeId) # 0
  /\ \E i \in 1..Len(envelopes) : ~envelopes[i].isActive
  /\ Balances(envelopes) # Balances(preEnvelopes)

\* the entry names the envelope on one of its two sides
Names(tx, env) ==
  \/ (tx.fromEnvelopeId # null /\ tx.fromEnvelopeId = env.id)
  \/ (tx.toEnvelopeId # null /\ tx.toEnvelopeId = env.id)

\* C16: after deleteTransaction(id) of a stored entry every envelope the entry
\* names is active, and isActive of every other envelope is as it was.
DeleteTransactionReactivates_C16 ==
  (lastOp = "deleteTransaction" /\ lastArgs.index # 0) =>
    LET tx == preTransactions[lastArgs.index] IN
    /\ Len(envelopes) = Len(preEnvelopes)
    /\ \A i \in 1..Len(envelopes) :
         IF Names(tx, preEnvelopes[i])
         THEN envelopes[i].isActive
         ELSE envelopes[i].isActive = preEnvelopes[i].isActive

DeleteTransactionReactivatesWitness_C16 ==
  /\ lastOp = "deleteTransaction"
  /\ lastArgs.index # 0
  /\ \E i \in 1..Len(preEnvelopes) :
       /\ preTransactions[lastArgs.index].toEnvelopeId = preEnvelopes[i].id
       /\ ~preEnvelopes[i].isActive
       /\ envelopes[i].isActive
  /\ \E j \in 1..Len(preEnvelopes) :
       ~Names(preTransactions[lastArgs.index], preEnvelopes[j])

\* C17: updateEnvelope(id, patch) never changes the name or the target of an
\* envelope that is core at the call and never makes it inactive; on a non-core
\* envelope it sets the name and the target the patch provides; a field the
\* patch does not provide keeps its value; it changes no other envelope, no
\* balance and not the ledger; an unknown id changes nothing.
UpdateEnvelopeEffect_C17 ==
  lastOp = "updateEnvelope" =>
    IF lastArgs.index = 0
    THEN envelopes = preEnvelopes /\ transactions = preTransactions
    ELSE
      LET e == lastArgs.index
          old == preEnvelopes[e]
          has(f) == f \in DOMAIN lastArgs.updates
      IN /\ transactions = preTransactions
         /\ Len(envelopes) = Len(preEnvelopes)
         /\ \A i \in 1..Len(envelopes) : i # e => envelopes[i] = preEnvelopes[i]
         /\ envelopes[e].id = old.id
         /\ envelopes[e].balanceCents = old.balanceCents
         /\ isCoreEnvelope(old) =>
              /\ envelopes[e].name = old.name
              /\ envelopes[e].targetCents = old.targetCents
              /\ old.isActive => envelopes[e].isActive
         /\ ~isCoreEnvelope(old) =>
              /\ has("name") => envelopes[e].name = lastArgs.updates.name
              /\ has("targetDollars") =>
                   envelopes[e].targetCents
                     = dollarsToCents(lastArgs.updates.targetDollars)
         /\ ~has("name") => envelopes[e].name = old.name
         /\ ~has("targetDollars") => envelopes[e].targetCents = old.targetCents
         /\ ~has("isIncome") => envelopes[e].isIncome = old.isIncome
         /\ ~has("isOverflow") => envelopes[e].isOverflow = old.isOverflow
         /\ ~has("isCreditCard") => envelopes[e].isCreditCard = old.isCreditCard
         /\ ~has("isActive") => envelopes[e].isActive = old.isActive

UpdateEnvelopeEffectWitness_C17 ==
  /\ lastOp = "updateEnvelope"
  /\ lastArgs.index # 0
  /\ isCoreEnvelope(preEnvelopes[lastArgs.index])
  /\ preEnvelopes[lastArgs.index].balanceCents # 0
  /\ "isActive" \in DOMAIN lastArgs.updates
  /\ ~lastArgs.updates.isActive
  /\ envelopes[lastArgs.index].isActive

\* the envelope is one of the collection
Present(env, envs) == \E j \in 1..Len(envs) : envs[j] = env

\* C18: at every step of every operation an envelope that is core before the
\* step is in the collection and active after it, and an envelope leaves the
\* collection only in cleanupUnusedEnvelopes and only if it was inactive before.
EnvelopeLifecycle_C18 ==
  lastOp \notin {"new", "loadState"} =>
    IF lastOp = "cleanupUnusedEnvelopes"
    THEN \A i \in 1..Len(preEnvelopes) :
           /\ isCoreEnvelope(preEnvelopes[i]) =>
                Present(preEnvelopes[i], envelopes) /\ preEnvelopes[i].isActive
           /\ ~Present(preEnvelopes[i], envelopes) => ~preEnvelopes[i].isActive
    ELSE /\ Len(envelopes) >= Len(preEnvelopes)
         /\ \A i \in 1..Len(preEnvelopes) :
              /\ envelopes[i].id = preEnvelopes[i].id
              /\ isCoreEnvelope(preEnvelopes[i]) => envelopes[i].isActive

\* every id an entry of the ledger names is the id of an envelope
LedgerResolves(envs, txs) ==
  \A k \in 1..Len(txs) :
    /\ txs[k].fromEnvelopeId # null => FindEnvelope(envs, txs[k].fromEnvelopeId) # 0
    /\ txs[k].toEnvelopeId # null => FindEnvelope(envs, txs[k].toEnvelopeId) # 0

\* the ids the caller of the last step gave are absent or ids of envelopes
InputsResolve ==
  LET known(id) == id = null \/ FindEnvelope(preEnvelopes, id) # 0 IN
  /\ lastOp = "addTransaction" =>
       known(lastArgs.fromEnvelopeId) /\ known(lastArgs.toEnvelopeId)
  /\ lastOp = "updateTransaction" =>
       /\ "fromEnvelopeId" \in DOMAIN lastArgs.updates =>
            known(lastArgs.updates.fromEnvelopeId)
       /\ "toEnvelopeId" \in DOMAIN lastArgs.updates =>
            known(lastArgs.updates.toEnvelopeId)

\* C19: from a state whose ledger names only existing envelopes, a step of any
\* operation called with ids of existing envelopes (or none) ends in such a
\* state: no stored entry names a purged envelope.
LedgerIntegrityKept_C19 ==
  (/\ lastOp \notin {"new", "loadState"}
   /\ LedgerResolves(preEnvelopes, preTransactions)
   /\ InputsResolve) =>
    LedgerResolves(envelopes, transactions)

LedgerIntegrityKeptWitness_C19 ==
  /\ lastOp = "cleanupUnusedEnvelopes"
  /\ LedgerResolves(preEnvelopes, preTransactions)
  /\ \E i \in 1..Len(envelopes) :
       /\ ~isCoreEnvelope(envelopes[i])
       /\ ~envelopes[i].isActive
       /\ envelopes[i].balanceCents = 0
       /\ \E k \in 1..Len(transactions) :
            /\ transactions[k].toEnvelopeId = envelopes[i].id
            /\ transactions[k].fromEnvelopeId = null

\* C20: in every state getTotalAllocationsCents() is the sum of the targets of
\* the envelopes autoAllocate selects (active, non-core, not a card, target > 0).
TotalAllocationsIsSelection_C20 ==
  pc = "ready" =>
    getTotalAllocationsCents(envelopes)
      = SumTargets(envelopes, allocationTargets(envelopes))

\* C21: pruneOldTransactions with settings.transactionRetentionDays = d, 0
\* included, keeps exactly the entries whose timestamp is at or after now minus
\* d days, in their order, and removes the others.
PruneCutoff_C21 ==
  lastOp = "pruneOldTransactions" =>
    transactions =
      SelectSeq(preTransactions, LAMBDA tx : tx.timestamp >= now - retentionDays)

\* the state init() leaves: its four statements done, no handler called yet
AfterInit == pc = "ready" /\ calls = 0 /\ lastOp = "cleanupUnusedEnvelopes"

\* C22: init() runs loadState, ensureCoreEnvelopes, pruneOldTransactions and
\* cleanupUnusedEnvelopes in this order, and the state it leaves holds no
\* envelope that is non-core, inactive, at balance 0 and named by no entry of
\* the pruned ledger.
InitCollectsAfterPrune_C22 ==
  /\ pc = "ensure" => lastOp = "loadState"
  /\ pc = "prune" => lastOp = "ensureCoreEnvelopes"
  /\ pc = "cleanup" => lastOp = "pruneOldTransactions"
  /\ AfterInit =>
       \A i \in 1..Len(envelopes) : ~Removable(envelopes[i], transactions)

InitCollectsAfterPruneWitness_C22 ==
  /\ AfterInit
  /\ \E i \in 1..Len(preEnvelopes) :
       /\ ~Present(preEnvelopes[i], envelopes)
       /\ preEnvelopes[i].id \in usedIds(lastArgs.loaded)
       /\ preEnvelopes[i].id \notin usedIds(transactions)

\* C23: the Delete button of a card changes nothing while the card's balance is
\* not 0 (no merge entry, the card stays active); it never appends to the
\* ledger, and it deactivates the card only at balance 0 with the confirm()
\* accepted.
DeleteCardBlocked_C23 ==
  lastOp = "deleteCard" =>
    LET card == preEnvelopes[lastArgs.index] IN
    /\ card.balanceCents # 0 =>
         envelopes = preEnvelopes /\ transactions = preTransactions
    /\ transactions = preTransactions
    /\ Len(envelopes) = Len(preEnvelopes)
    /\ Balances(envelopes) = Balances(preEnvelopes)
    /\ (\E j \in 1..Len(envelopes) :
          preEnvelopes[j].isActive /\ ~envelopes[j].isActive) =>
         card.balanceCents = 0 /\ lastArgs.ok

DeleteCardBlockedWitness_C23 ==
  /\ lastOp = "deleteCard"
  /\ preEnvelopes[lastArgs.index].balanceCents # 0
  /\ lastArgs.ok
  /\ lastArgs.income # 0
  /\ envelopes[lastArgs.index].isActive

InactiveEmpty(envs) ==
  \A i \in 1..Len(envs) : ~envs[i].isActive => envs[i].balanceCents = 0

\* C24: every inactive envelope has balance 0; stated on the steps: from a state
\* where it is so, addTransaction, updateTransaction, deleteTransaction,
\* deleteEnvelope and autoAllocate end in a state where it is so.
InactiveHoldNothing_C24 ==
  (/\ lastOp \in {"addTransaction", "addIncome", "updateTransaction",
                  "deleteTransaction", "deleteEnvelope", "autoAllocate"}
   /\ InactiveEmpty(preEnvelopes)) =>
    InactiveEmpty(envelopes)

RECURSIVE TotalFrom(_, _)
TotalFrom(envs, k) ==
  IF k > Len(envs) THEN 0 ELSE envs[k].balanceCents + TotalFrom(envs, k + 1)

\* the sum of balanceCents over the whole collection, active or not
Total(envs) == TotalFrom(envs, 1)

BothResolve(envs, tx) ==
  Resolve(envs, tx.fromEnvelopeId) # 0 /\ Resolve(envs, tx.toEnvelopeId) # 0

OneSideAbsent(tx) == tx.fromEnvelopeId = null \/ tx.toEnvelopeId = null

\* what applying tx adds to the total: its amount for a to side that resolves,
\* minus its amount for a from side that resolves
Entering(envs, tx) ==
  (IF Resolve(envs, tx.toEnvelopeId) # 0 THEN tx.amountCents ELSE 0)
  - (IF Resolve(envs, tx.fromEnvelopeId) # 0 THEN tx.amountCents ELSE 0)

\* the operations C25 lists as never changing the total
KeepsTotal ==
  lastOp \in {"autoAllocate", "deleteEnvelope", "updateEnvelope",
              "pruneOldTransactions", "cleanupUnusedEnvelopes"}
    => Total(envelopes) = Total(preEnvelopes)

\* C25 as stated: the total of all balances is unchanged by autoAllocate,
\* deleteEnvelope, updateEnvelope, pruneOldTransactions, cleanupUnusedEnvelopes
\* and by adding, editing or deleting an entry whose two sides resolve; it
\* changes only with an entry that has an absent from or an absent to.
ConservationAsStated_C25 ==
  /\ KeepsTotal
  /\ (IsAddTransaction /\ dollarsToCents(lastArgs.amountDollars) # 0) =>
       /\ BothResolve(preEnvelopes, AppendedEntry) =>
            Total(envelopes) = Total(preEnvelopes)
       /\ Total(envelopes) # Total(preEnvelopes) => OneSideAbsent(AppendedEntry)
  /\ (lastOp = "deleteTransaction" /\ lastArgs.index # 0) =>
       LET tx == preTransactions[lastArgs.index] IN
       /\ BothResolve(preEnvelopes, tx) => Total(envelopes) = Total(preEnvelopes)
       /\ Total(envelopes) # Total(preEnvelopes) => OneSideAbsent(tx)
  /\ (lastOp = "updateTransaction" /\ lastArgs.index # 0) =>
       LET old == preTransactions[lastArgs.index]
           new == PatchedEntry(old, lastArgs.updates)
       IN /\ (BothResolve(preEnvelopes, old) /\ BothResolve(preEnvelopes, new)) =>
               Total(envelopes) = Total(preEnvelopes)
          /\ Total(envelopes) # Total(preEnvelopes) =>
               OneSideAbsent(old) \/ OneSideAbsent(new)

\* C25, amended: the listed operations never change the total; adding an entry
\* changes it by the entry's amount for a to side that resolves minus its amount
\* for a from side that resolves, deleting an entry by the opposite, editing by
\* the difference between the new entry and the old: it changes only with an
\* entry one side of which is absent or resolves to no envelope.
Conservation_C25 ==
  /\ KeepsTotal
  /\ (IsAddTransaction /\ dollarsToCents(lastArgs.amountDollars) # 0) =>
       Total(envelopes) = Total(preEnvelopes) + Entering(preEnvelopes, AppendedEntry)
  /\ (lastOp = "deleteTransaction" /\ lastArgs.index # 0) =>
       Total(envelopes) =
         Total(preEnvelopes) - Entering(preEnvelopes, preTransactions[lastArgs.index])
  /\ (lastOp = "updateTransaction" /\ lastArgs.index # 0) =>
       LET old == preTransactions[lastArgs.index]
           new == PatchedEntry(old, lastArgs.updates)
       IN Total(envelopes) =
            Total(preEnvelopes) - Entering(preEnvelopes, old)
            + Entering(preEnvelopes, new)

ConservationWitness_C25 ==
  /\ lastOp = "addTransaction"
  /\ lastArgs.fromEnvelopeId = GhostId
  /\ Resolve(preEnvelopes, lastArgs.toEnvelopeId) # 0
  /\ Total(envelopes) = Total(preEnvelopes) + dollarsToCents(lastArgs.amountDollars)
  /\ Total(envelopes) # Total(preEnvelopes)
  /\ \E i \in 1..Len(envelopes) : ~envelopes[i].isActive /\ envelopes[i].balanceCents # 0

====
